---- MODULE Spec2Model ----
(***************************************************************************)
(* Model of src/node/recursiveModuleCompile.js (traceur-compiler).         *)
(*                                                                         *)
(* The file exports two operations, recursiveModuleCompileToSingleFile and *)
(* forEachRecursiveModuleCompile, both built on recursiveModuleCompile and *)
(* sequencePromises.  The model follows the promise chains of the file     *)
(* reaction by reaction: every callback handed to .then() is one action.   *)
(* The external loader (TraceurLoader), the compiler (NodeCompiler) and    *)
(* the caller are the environment.                                         *)
(***************************************************************************)
EXTENDS Integers, Sequences, FiniteSets, TLC

VARIABLES
  cwd,     \* the module-level variable `cwd` (line 26)
  pcwd,    \* the process working directory: [dir, by], by = slot whose chdir set it
  call,    \* per call slot: arguments, locals and promises of one exported call
  comp,    \* per call slot: the recursiveModuleCompile invocations it made
  writes   \* per call slot and compile: the writeTreeToFile invocations made

vars == <<cwd, pcwd, call, comp, writes>>

(***************************************************************************)
(* Bounds                                                                  *)
(***************************************************************************)
MaxCalls == 2
MaxEntries == 2

Slots == 1..MaxCalls

(***************************************************************************)
(* Paths: a path is a sequence of segments; an absolute path starts with   *)
(* the segment "/".                                                        *)
(***************************************************************************)
Root == <<"/">>

IsAbsolute(p) == Len(p) > 0 /\ p[1] = "/"

Front(s) == SubSeq(s, 1, Len(s) - 1)

RECURSIVE NormAcc(_, _)
NormAcc(acc, rest) ==
  IF rest = <<>> THEN acc
  ELSE LET h == Head(rest)
           t == Tail(rest)
       IN IF h = "." THEN NormAcc(acc, t)
          ELSE IF h = ".."
               THEN IF acc = Root THEN NormAcc(acc, t)
                    ELSE IF acc = <<>> \/ acc[Len(acc)] = ".."
                         THEN NormAcc(Append(acc, ".."), t)
                         ELSE NormAcc(Front(acc), t)
               ELSE NormAcc(Append(acc, h), t)

\* path.normalize
PathNormalize(p) ==
  IF IsAbsolute(p) THEN NormAcc(Root, Tail(p)) ELSE NormAcc(<<>>, p)

\* path.resolve(p), evaluated while the process working directory is `wd`
PathResolve(wd, p) ==
  IF IsAbsolute(p) THEN PathNormalize(p) ELSE PathNormalize(wd \o p)

\* path.dirname of an absolute, normalized path
PathDirname(p) == IF Len(p) > 1 THEN Front(p) ELSE p

RECURSIVE CommonPrefix(_, _)
CommonPrefix(a, b) ==
  IF a = <<>> \/ b = <<>> \/ Head(a) # Head(b) THEN 0
  ELSE 1 + CommonPrefix(Tail(a), Tail(b))

Ups(n) == [i \in 1..n |-> ".."]

\* path.relative(from, to), evaluated while the process working directory is `wd`
PathRelative(wd, from, to) ==
  LET f == PathResolve(wd, from)
      t == PathResolve(wd, to)
      c == CommonPrefix(f, t)
  IN Ups(Len(f) - c) \o SubSeq(t, c + 1, Len(t))

\* path.join(dir, name)
PathJoin(dir, name) ==
  PathNormalize(dir \o (IF IsAbsolute(name) THEN Tail(name) ELSE name))

\* util.normalizePath: backslashes to slashes; segments carry no separator
NormalizePath(p) == p

(***************************************************************************)
(* Inputs                                                                  *)
(***************************************************************************)
StartDir == <<"/", "w">>
WorkDirs == {<<"/", "w">>, <<"/", "x">>}
OutputFiles == {<<"/", "out", "bundle.js">>, <<"bundle.js">>}
OutputDirs == {<<"/", "out">>, <<"out">>}
Types == {"module", "script"}
ModulesOptions == {"register", "inline"}
WriteError == <<"write">>
SyncError == <<"throw">>
NoError == <<>>

\* the error the external loader rejects with names the unit it failed on
LoadError(name) == <<"load">> \o name

EntryName(i) == <<"src", ToString(i)>>

\* the `includes` argument: entries {name, type}
IncludeLists ==
  UNION {[1..n -> [name : {EntryName(i) : i \in 1..n}, type : Types]]
           : n \in 0..MaxEntries}

Includes == {l \in IncludeLists : \A i \in 1..Len(l) : l[i].name = EntryName(i)}

\* the `options` argument; bundle is absent (falsy) until line 42 sets it
OptionsArgs == [depTarget : BOOLEAN, modules : ModulesOptions, bundle : {FALSE}]

\* where a synchronous exception may be raised inside the single-file call
ThrowPoints == {"none", "mkdir", "rename", "session"}

(***************************************************************************)
(* Records                                                                 *)
(***************************************************************************)
NoTree == [isNull |-> TRUE, elements |-> <<>>]

NoOptions == [depTarget |-> FALSE, modules |-> "inline", bundle |-> FALSE]

IdleCall ==
  [kind |-> "none", includes |-> <<>>, options |-> NoOptions,
   compilerOptions |-> NoOptions,
   outputFile |-> <<>>, outputDir |-> <<>>, cwdBefore |-> <<>>,
   threw |-> NoError, wst |-> "pending", werr |-> NoError,
   item |-> <<>>, ierr |-> <<>>,
   ret |-> "pending", retErr |-> NoError,
   observed |-> FALSE, seenBy |-> 0, seenDir |-> <<>>]

\* new Options(options) (line 137): the constructor copies the fields
OptionsCopy(options) ==
  [depTarget |-> options.depTarget, modules |-> options.modules,
   bundle |-> options.bundle]

\* the locals of one recursiveModuleCompile invocation (lines 112-121)
NewCompile(list, options, wd) ==
  [list |-> list,
   depTarget |-> options.depTarget,
   basePath |-> PathResolve(wd, <<".">>),
   load |-> [i \in 1..Len(list) |-> "none"],
   lerr |-> [i \in 1..Len(list) |-> NoError],
   doEval |-> [i \in 1..Len(list) |-> FALSE],
   opts |-> [i \in 1..Len(list) |-> NoOptions],
   ref |-> [i \in 1..Len(list) |-> "none"],
   held |-> [i \in 1..Len(list) |-> NoOptions],
   startDir |-> [i \in 1..Len(list) |-> <<>>],
   nload |-> [i \in 1..Len(list) |-> 0],
   elements |-> <<>>,
   out |-> "pending", err |-> NoError, tree |-> NoTree]

(***************************************************************************)
(* Initial state: the module has just been loaded (line 26).               *)
(***************************************************************************)
Init ==
  /\ cwd = StartDir
  /\ pcwd = [dir |-> StartDir, by |-> 0]
  /\ call = [s \in Slots |-> IdleCall]
  /\ comp = [s \in Slots |-> <<>>]
  /\ writes = [s \in Slots |-> <<>>]

Idle(s) == call[s].kind = "none"

\* the caller serializes its calls (spec 5): a call starts when none is active
Serialized(s) == s = 1 /\ \A t \in Slots : Idle(t)

(***************************************************************************)
(* The caller changes the process working directory between calls.         *)
(***************************************************************************)
Chdir(d) ==
  /\ Serialized(1)
  /\ d # pcwd.dir
  /\ pcwd' = [dir |-> d, by |-> 0]
  /\ UNCHANGED <<cwd, call, comp, writes>>

(***************************************************************************)
(* recursiveModuleCompileToSingleFile, the synchronous part (lines 32-53). *)
(***************************************************************************)
\* lines 37-40: include.name = path.resolve(include.name)
ResolveIncludes(wd, includes) ==
  [i \in 1..Len(includes) |->
     [name |-> PathResolve(wd, includes[i].name), type |-> includes[i].type]]

\* lines 48-51: include.name = normalizePath(path.relative(outputDir, name)),
\* evaluated after process.chdir(outputDir)
RelativeIncludes(outputDir, includes) ==
  [i \in 1..Len(includes) |->
     [name |-> NormalizePath(PathRelative(outputDir, outputDir, includes[i].name)),
      type |-> includes[i].type]]

\* variant: any non-empty list is a bundle (includes.length > 0)
BundleNonEmpty(includes) == Len(includes) > 0

\* line 42
Bundle(includes) == Len(includes) > 1

\* variant: the compile runs without moving to the output directory
ProcessChdirSkipped(outputDir, s) == [dir |-> pcwd.dir, by |-> s]

\* process.chdir(outputDir) (line 46), done on behalf of call s
ProcessChdir(outputDir, s) == [dir |-> outputDir, by |-> s]

\* lines 32-53, whatever else is running in the process
SingleFileCall(s, outputFile, includes, options, throwAt) ==
  LET resolvedOutputFile == PathResolve(pcwd.dir, outputFile)
      outputDir == PathDirname(resolvedOutputFile)
      resolved == ResolveIncludes(pcwd.dir, includes)
      opts == [options EXCEPT !.bundle = Bundle(includes)]
      relative == RelativeIncludes(outputDir, resolved)
      started == [IdleCall EXCEPT !.kind = "single",
                                  !.options = opts,
                                  !.compilerOptions = opts,
                                  !.outputFile = resolvedOutputFile,
                                  !.outputDir = outputDir,
                                  !.cwdBefore = pcwd.dir]
  IN /\ Idle(s)
     /\ IF throwAt = "mkdir"
        THEN /\ call' = [call EXCEPT ![s] =
                   [started EXCEPT !.includes = resolved, !.threw = SyncError]]
             /\ UNCHANGED <<pcwd, comp, writes>>
        ELSE /\ pcwd' = ProcessChdir(outputDir, s)
             /\ IF throwAt = "none"
                THEN /\ call' = [call EXCEPT ![s] =
                           [started EXCEPT !.includes = relative]]
                     /\ comp' = [comp EXCEPT ![s] =
                           <<NewCompile(relative, opts, ProcessChdir(outputDir, s).dir)>>]
                     /\ writes' = [writes EXCEPT ![s] = <<<<>>>>]
                ELSE /\ call' = [call EXCEPT ![s] =
                           [started EXCEPT
                              !.includes = IF throwAt = "rename"
                                           THEN resolved ELSE relative,
                              !.threw = SyncError]]
                     /\ UNCHANGED <<comp, writes>>
     /\ UNCHANGED cwd

\* a call by a caller that serializes its calls
SingleFile(s, outputFile, includes, options, throwAt) ==
  /\ Serialized(s)
  /\ SingleFileCall(s, outputFile, includes, options, throwAt)

(***************************************************************************)
(* forEachRecursiveModuleCompile, the synchronous part (lines 62-71).      *)
(***************************************************************************)
\* variant: settled by the first item promise to settle
PromiseRace(c, item, ierr, k) ==
  IF c.ret # "pending" THEN [ret |-> c.ret, retErr |-> c.retErr]
  ELSE IF item[k] = "rejected" THEN [ret |-> "rejected", retErr |-> ierr[k]]
  ELSE [ret |-> "resolved", retErr |-> NoError]

\* Promise.all over the item promises: resolved when all are, rejected with
\* the first rejection
PromiseAll(c, item, ierr, k) ==
  IF c.ret # "pending" THEN [ret |-> c.ret, retErr |-> c.retErr]
  ELSE IF item[k] = "rejected" THEN [ret |-> "rejected", retErr |-> ierr[k]]
  ELSE IF \A j \in 1..Len(item) : item[j] = "resolved"
       THEN [ret |-> "resolved", retErr |-> NoError]
       ELSE [ret |-> "pending", retErr |-> NoError]

ForEach(s, outputDirArg, includes, options) ==
  LET outputDir == PathResolve(pcwd.dir, outputDirArg)
      n == Len(includes)
  IN /\ Serialized(s)
     /\ call' = [call EXCEPT ![s] =
           [IdleCall EXCEPT !.kind = "each",
                            !.includes = includes,
                            !.options = options,
                            !.compilerOptions = options,
                            !.outputDir = outputDir,
                            !.cwdBefore = pcwd.dir,
                            !.item = [k \in 1..n |-> "pending"],
                            !.ierr = [k \in 1..n |-> NoError],
                            !.ret = IF n = 0 THEN "resolved" ELSE "pending"]]
     /\ comp' = [comp EXCEPT ![s] =
           [k \in 1..n |-> NewCompile(<<includes[k]>>, options, pcwd.dir)]]
     /\ writes' = [writes EXCEPT ![s] = [k \in 1..n |-> <<>>]]
     /\ UNCHANGED <<cwd, pcwd>>

(***************************************************************************)
(* recursiveModuleCompile: sequencePromises over loadInput (lines 89-163). *)
(***************************************************************************)
Compiles(s) == 1..Len(comp[s])

\* variant: f is applied to every item at once (list.map(f))
CanStartEager(c, i) == c.load[i] = "none"

\* variant: f(item i) is called only while the process is in the directory
\* the session was created in
CanStartInOwnDir(c, i) ==
  /\ c.load[i] = "none"
  /\ IF i = 1 THEN TRUE ELSE c.load[i - 1] = "done"
  /\ pcwd.dir = c.basePath

\* variant: f(item i) is called once f(item i-1) has been called, not completed
CanStartOnCalled(c, i) ==
  /\ c.load[i] = "none"
  /\ IF i = 1 THEN TRUE ELSE c.load[i - 1] # "none"

\* variant: f(item i) is called once f(item i-1) has settled either way
\* (result.then(next, next))
CanStartOnSettled(c, i) ==
  /\ c.load[i] = "none"
  /\ IF i = 1 THEN TRUE ELSE c.load[i - 1] \in {"done", "rejected"}

\* sequencePromises (lines 89-95): f(item i) is called by the reaction to the
\* promise of f(item i-1), and the first by the reaction to Promise.resolve()
CanStart(c, i) ==
  /\ c.load[i] = "none"
  /\ IF i = 1 THEN TRUE ELSE c.load[i - 1] = "done"

\* variant: the load is handed the options object itself
\* (metadata: {traceurOptions: options})
OptionsRefShared(i) == "options"

\* line 137: the object handed to load i is a new object of its own
OptionsRef(i) == "copy"

\* the external loader/compiler writes into the options object it was handed
\* while it compiles a unit
TouchedOptions(o) == [o EXCEPT !.modules = "bootstrap"]

\* lines 139-143
\* variant: the type of the entry is not looked at
DoEvaluateAnyType(input, optionsCopy) == optionsCopy.modules = "register"

DoEvaluateModule(input, optionsCopy) ==
  input.type # "script" /\ optionsCopy.modules = "register"

\* loadInput up to the call of the load function (lines 132-150)
LoadInput(s, k, i) ==
  LET c == comp[s][k]
      optionsCopy == OptionsCopy(call[s].options)
  IN /\ k \in Compiles(s)
     /\ i \in 1..Len(c.list)
     /\ CanStart(c, i)
     /\ comp' = [comp EXCEPT ![s][k] =
           [c EXCEPT !.load[i] = "inflight",
                     !.opts[i] = optionsCopy,
                     !.ref[i] = OptionsRef(i),
                     !.held[i] = optionsCopy,
                     !.doEval[i] = DoEvaluateModule(c.list[i], optionsCopy),
                     !.startDir[i] = pcwd.dir,
                     !.nload[i] = c.nload[i] + 1]]
     /\ UNCHANGED <<cwd, pcwd, call, writes>>

CodeElement(c, i) == [kind |-> "code", entry |-> i, name |-> c.list[i].name]

\* appendEvaluateModule (lines 123-130)
EvalElement(c, i) == [kind |-> "eval", entry |-> i, name |-> c.list[i].name]

Compiled(c, i) == \E j \in 1..Len(c.elements) : c.elements[j] = CodeElement(c, i)

\* the external loader compiles the unit of entry i (an entry without
\* dependencies is one unit) and appends it to the session's elements
LoaderAppend(s, k, i) ==
  LET c == comp[s][k]
  IN /\ k \in Compiles(s)
     /\ i \in 1..Len(c.list)
     /\ c.load[i] = "inflight"
     /\ ~Compiled(c, i)
     /\ comp' = [comp EXCEPT ![s][k] =
           [c EXCEPT !.elements = Append(c.elements, CodeElement(c, i)),
                     !.held[i] = TouchedOptions(c.held[i])]]
     /\ call' = IF c.ref[i] = "options"
                THEN [call EXCEPT ![s].options = TouchedOptions(@)]
                ELSE call
     /\ UNCHANGED <<cwd, pcwd, writes>>

\* the external loader resolves the load promise of entry i
LoaderResolve(s, k, i) ==
  LET c == comp[s][k]
  IN /\ k \in Compiles(s)
     /\ i \in 1..Len(c.list)
     /\ c.load[i] = "inflight"
     /\ comp' = [comp EXCEPT ![s][k] = [c EXCEPT !.load[i] = "resolved"]]
     /\ UNCHANGED <<cwd, pcwd, call, writes>>

\* a rejection passes every .then() that has no rejection handler
\* (lines 92, 150 and 157) and rejects the promise of the compile
Rejected(c, i, e) ==
  [c EXCEPT !.load[i] = "rejected", !.lerr[i] = e,
            !.out = IF c.out = "pending" THEN "rejected" ELSE c.out,
            !.err = IF c.out = "pending" THEN e ELSE c.err]

\* the external loader rejects the load promise of entry i with e
LoaderReject(s, k, i) ==
  LET c == comp[s][k]
      e == LoadError(c.list[i].name)
  IN /\ k \in Compiles(s)
     /\ i \in 1..Len(c.list)
     /\ c.load[i] = "inflight"
     /\ comp' = [comp EXCEPT ![s][k] = Rejected(c, i, e)]
     /\ UNCHANGED <<cwd, pcwd, call, writes>>

\* the reaction to the load promise (lines 150-154)
AfterLoad(s, k, i) ==
  LET c == comp[s][k]
  IN /\ k \in Compiles(s)
     /\ i \in 1..Len(c.list)
     /\ c.load[i] = "resolved"
     /\ comp' = [comp EXCEPT ![s][k] =
           [c EXCEPT !.load[i] = "done",
                     !.elements = IF c.doEval[i]
                                  THEN Append(c.elements, EvalElement(c, i))
                                  ELSE c.elements]]
     /\ UNCHANGED <<cwd, pcwd, call, writes>>

\* lines 158-162
ToTree(c) ==
  IF c.depTarget THEN NoTree ELSE [isNull |-> FALSE, elements |-> c.elements]

\* variant: the chain of an empty list never resolves
SequencedNonEmpty(c) ==
  c.list # <<>> /\ \A i \in 1..Len(c.list) : c.load[i] = "done"

\* the promise sequencePromises returns is resolved (line 94)
Sequenced(c) == \A i \in 1..Len(c.list) : c.load[i] = "done"

\* the reaction to the promise of sequencePromises (lines 157-163)
Finish(s, k) ==
  LET c == comp[s][k]
  IN /\ k \in Compiles(s)
     /\ c.out = "pending"
     /\ Sequenced(c)
     /\ comp' = [comp EXCEPT ![s][k] =
           [c EXCEPT !.out = "resolved", !.tree = ToTree(c)]]
     /\ UNCHANGED <<cwd, pcwd, call, writes>>

(***************************************************************************)
(* recursiveModuleCompileToSingleFile, the reactions (lines 53-59).        *)
(***************************************************************************)
\* compiler.writeTreeToFile(tree, file): one invocation, which may throw
WriteRecord(tree, file, ok, ret) ==
  [tree |-> tree, file |-> file, ok |-> ok, dir |-> pcwd.dir, ret |-> ret]

\* the reaction to the promise of recursiveModuleCompile (lines 54-56)
WriteTree(s, ok) ==
  /\ call[s].kind = "single"
  /\ call[s].threw = NoError
  /\ call[s].wst = "pending"
  /\ comp[s][1].out = "resolved"
  /\ writes' = [writes EXCEPT ![s][1] =
        Append(@, WriteRecord(comp[s][1].tree, call[s].outputFile, ok,
                              call[s].ret))]
  /\ call' = [call EXCEPT ![s].wst = IF ok THEN "resolved" ELSE "rejected",
                          ![s].werr = IF ok THEN NoError ELSE WriteError]
  /\ UNCHANGED <<cwd, pcwd, comp>>

\* the promise of the first .then() (line 56): a rejection of the compile
\* passes through it, having no rejection handler
Written(s) ==
  IF comp[s][1].out = "rejected"
  THEN [st |-> "rejected", err |-> comp[s][1].err]
  ELSE [st |-> call[s].wst, err |-> call[s].werr]

\* variant: only the fulfilment handler reverts (.then(revertCwd))
RevertCwdOnResolve(st) ==
  IF st = "resolved" THEN [dir |-> cwd, by |-> 0] ELSE pcwd

\* revertCwd (lines 28-30), called by both handlers of line 56
RevertCwd(st) == [dir |-> cwd, by |-> 0]

\* variant: the rejection handler does not rethrow
SettleSwallow(st, err) == [ret |-> "resolved", retErr |-> NoError]

\* what the handlers of lines 56-59 settle the returned promise with
Settle(st, err) ==
  IF st = "resolved" THEN [ret |-> "resolved", retErr |-> NoError]
  ELSE [ret |-> "rejected", retErr |-> err]

\* the reaction to the promise of the first .then() (lines 56-59)
Revert(s) ==
  LET w == Written(s)
      r == Settle(w.st, w.err)
  IN /\ call[s].kind = "single"
     /\ call[s].threw = NoError
     /\ call[s].ret = "pending"
     /\ w.st # "pending"
     /\ pcwd' = RevertCwd(w.st)
     /\ call' = [call EXCEPT ![s].ret = r.ret, ![s].retErr = r.retErr]
     /\ UNCHANGED <<cwd, comp, writes>>

(***************************************************************************)
(* forEachRecursiveModuleCompile, the reactions (lines 66-71).             *)
(***************************************************************************)
\* variant: a rejection of the whole request cancels the entries left
CanWriteEachUnlessFailed(cl, c, k) ==
  cl.item[k] = "pending" /\ c.out = "resolved" /\ cl.ret = "pending"

\* variant: the entries are written in list order, each after the one before
CanWriteEachInOrder(cl, c, k) ==
  /\ cl.item[k] = "pending"
  /\ c.out = "resolved"
  /\ IF k = 1 THEN TRUE ELSE cl.item[k - 1] # "pending"

\* variant: the reaction runs again for a compile that is already written
CanWriteEachAgain(cl, c, k) == c.out = "resolved"

\* the reaction of line 66 runs when the entry's own compile is resolved
CanWriteEach(cl, c, k) == cl.item[k] = "pending" /\ c.out = "resolved"

\* the reaction to the promise of recursiveModuleCompile([input]) (lines 66-69)
WriteEach(s, k, ok) ==
  LET cl == call[s]
      c == comp[s][k]
      item == [cl.item EXCEPT ![k] = IF ok THEN "resolved" ELSE "rejected"]
      ierr == [cl.ierr EXCEPT ![k] = IF ok THEN NoError ELSE WriteError]
      all == PromiseAll(cl, item, ierr, k)
  IN /\ cl.kind = "each"
     /\ k \in Compiles(s)
     /\ CanWriteEach(cl, c, k)
     /\ writes' = [writes EXCEPT ![s][k] =
           Append(@, WriteRecord(c.tree,
                                 PathJoin(cl.outputDir, cl.includes[k].name), ok,
                                 cl.ret))]
     /\ call' = [call EXCEPT ![s] =
           [cl EXCEPT !.item = item, !.ierr = ierr,
                      !.ret = all.ret, !.retErr = all.retErr]]
     /\ UNCHANGED <<cwd, pcwd, comp>>

\* a rejected compile rejects its item promise (line 66 has no rejection
\* handler), which Promise.all observes (line 71)
ItemReject(s, k) ==
  LET cl == call[s]
      c == comp[s][k]
      item == [cl.item EXCEPT ![k] = "rejected"]
      ierr == [cl.ierr EXCEPT ![k] = c.err]
      all == PromiseAll(cl, item, ierr, k)
  IN /\ cl.kind = "each"
     /\ k \in Compiles(s)
     /\ cl.item[k] = "pending"
     /\ c.out = "rejected"
     /\ call' = [call EXCEPT ![s] =
           [cl EXCEPT !.item = item, !.ierr = ierr,
                      !.ret = all.ret, !.retErr = all.retErr]]
     /\ UNCHANGED <<cwd, pcwd, comp, writes>>

(***************************************************************************)
(* The caller.                                                             *)
(***************************************************************************)
\* a continuation the caller attached to the returned promise runs
Observe(s) ==
  /\ ~Idle(s)
  /\ call[s].ret # "pending"
  /\ ~call[s].observed
  /\ call' = [call EXCEPT ![s].observed = TRUE,
                          ![s].seenBy = pcwd.by,
                          ![s].seenDir = pcwd.dir]
  /\ UNCHANGED <<cwd, pcwd, comp, writes>>

\* nothing of the call is left to run
Quiescent(s) ==
  \/ call[s].threw # NoError
  \/ /\ call[s].observed
     /\ \A k \in 1..Len(call[s].item) : call[s].item[k] # "pending"

\* the caller drops the finished call; its session is discarded
Forget(s) ==
  /\ ~Idle(s)
  /\ Quiescent(s)
  /\ call' = [call EXCEPT ![s] = IdleCall]
  /\ comp' = [comp EXCEPT ![s] = <<>>]
  /\ writes' = [writes EXCEPT ![s] = <<>>]
  /\ pcwd' = [pcwd EXCEPT !.by = IF @ = s THEN 0 ELSE @]
  /\ UNCHANGED cwd

(***************************************************************************)
(* Specification                                                           *)
(***************************************************************************)
Entries == 1..MaxEntries

\* the steps of recursiveModuleCompile, shared by both exported operations
Compile ==
  \/ \E s \in Slots, k \in Entries, i \in Entries : LoadInput(s, k, i)
  \/ \E s \in Slots, k \in Entries, i \in Entries : LoaderAppend(s, k, i)
  \/ \E s \in Slots, k \in Entries, i \in Entries : LoaderResolve(s, k, i)
  \/ \E s \in Slots, k \in Entries, i \in Entries : LoaderReject(s, k, i)
  \/ \E s \in Slots, k \in Entries, i \in Entries : AfterLoad(s, k, i)
  \/ \E s \in Slots, k \in Entries : Finish(s, k)

Caller ==
  \/ \E s \in Slots : Observe(s)
  \/ \E s \in Slots : Forget(s)

\* the caller calls recursiveModuleCompileToSingleFile
CallSingleFile ==
  \E s \in {t \in Slots : Serialized(t)} :
    \E f \in OutputFiles, l \in Includes, o \in OptionsArgs, t \in ThrowPoints :
      SingleFile(s, f, l, o, t)

\* the caller calls forEachRecursiveModuleCompile
CallForEach ==
  \E s \in {t \in Slots : Serialized(t)} :
    \E d \in OutputDirs, l \in Includes, o \in OptionsArgs :
      ForEach(s, d, l, o)

\* a caller of recursiveModuleCompileToSingleFile
Next ==
  \/ CallSingleFile
  \/ Compile
  \/ \E s \in Slots, ok \in BOOLEAN : WriteTree(s, ok)
  \/ \E s \in Slots : Revert(s)
  \/ \E d \in WorkDirs : Chdir(d)
  \/ Caller

Spec == Init /\ [][Next]_vars

\* the output files of a caller that overlaps its single-file calls
OverlapFiles == {<<"/", "out", "bundle.js">>, <<"/", "dist", "bundle.js">>,
                 <<"/", "w", "bundle.js">>}

OverlapOptions == [depTarget |-> FALSE, modules |-> "register", bundle |-> FALSE]

\* every overlapping call compiles one list of MaxEntries modules
OverlapIncludes ==
  {l \in Includes : Len(l) = MaxEntries /\ \A i \in 1..Len(l) : l[i].type = "module"}

\* the two calls that overlap
Pair == {1, 2}

\* the lowest free slot
FreeSlot(s) == Idle(s) /\ \A t \in 1..(s - 1) : ~Idle(t)

\* the output directories of the calls that have not settled
ActiveDirs ==
  {call[t].outputDir : t \in {u \in Slots : ~Idle(u) /\ call[u].ret = "pending"}}

\* the caller calls recursiveModuleCompileToSingleFile without waiting for the
\* calls it made before, each call with an output directory of its own
CallOverlapping ==
  \E s \in {t \in Pair : FreeSlot(t)} :
    \E f \in {g \in OverlapFiles : PathDirname(g) \notin ActiveDirs},
       l \in OverlapIncludes :
      SingleFileCall(s, f, l, OverlapOptions, "none")

\* a caller of recursiveModuleCompileToSingleFile that overlaps its calls
NextOverlap ==
  \/ CallOverlapping
  \/ \E s \in Slots, i \in Entries : LoadInput(s, 1, i)
  \/ \E s \in Slots, i \in Entries : LoaderResolve(s, 1, i)
  \/ \E s \in Slots, i \in Entries : LoaderReject(s, 1, i)
  \/ \E s \in Slots, i \in Entries : AfterLoad(s, 1, i)
  \/ \E s \in Slots : Finish(s, 1)
  \/ \E s \in Slots, ok \in BOOLEAN : WriteTree(s, ok)
  \/ \E s \in Slots : Revert(s)

SpecOverlap == Init /\ [][NextOverlap]_vars

\* the output files of a caller that compiles the same entry objects twice:
\* next to the working directory, below it and elsewhere
AgainFiles == OutputFiles \cup {<<"out", "bundle.js">>}

\* the caller calls recursiveModuleCompileToSingleFile
CallFirst ==
  \E f \in AgainFiles, l \in Includes, o \in OptionsArgs :
    /\ \A t \in Slots : Idle(t)
    /\ SingleFileCall(1, f, l, o, "none")

\* having seen the first call settle, the caller calls again with the same
\* output file and the same entry objects, whose names lines 38 and 49 of the
\* first call have assigned
CallAgain ==
  /\ call[1].kind = "single"
  /\ call[1].observed
  /\ SingleFileCall(2, call[1].outputFile, call[1].includes, call[1].options,
                    "none")

\* a caller of recursiveModuleCompileToSingleFile that compiles a list twice
NextAgain ==
  \/ CallFirst
  \/ CallAgain
  \/ Compile
  \/ \E s \in Slots, ok \in BOOLEAN : WriteTree(s, ok)
  \/ \E s \in Slots : Revert(s)
  \/ \E s \in Slots : Observe(s)

SpecAgain == Init /\ [][NextAgain]_vars

\* every reaction of a promise chain that is due runs, and every call of the
\* external loader settles
Reactions(s) ==
  /\ \A i \in Entries : WF_vars(LoadInput(s, 1, i))
  /\ \A i \in Entries : WF_vars(LoaderResolve(s, 1, i) \/ LoaderReject(s, 1, i))
  /\ \A i \in Entries : WF_vars(AfterLoad(s, 1, i))
  /\ WF_vars(Finish(s, 1))
  /\ WF_vars(\E ok \in BOOLEAN : WriteTree(s, ok))
  /\ WF_vars(Revert(s))

FairSpec == Spec /\ \A s \in Slots : Reactions(s)

\* a caller of forEachRecursiveModuleCompile
NextEach ==
  \/ CallForEach
  \/ Compile
  \/ \E s \in Slots, k \in Entries, ok \in BOOLEAN : WriteEach(s, k, ok)
  \/ \E s \in Slots, k \in Entries : ItemReject(s, k)
  \/ Caller

SpecEach == Init /\ [][NextEach]_vars

(***************************************************************************)
(* Properties                                                              *)
(***************************************************************************)
Single(s) == call[s].kind = "single"
Each(s) == call[s].kind = "each"
Settled(s) == call[s].ret # "pending"

InFlight(c) == {i \in 1..Len(c.list) : c.load[i] = "inflight"}

\* C1: within one recursiveModuleCompile, the load of entry i+1 is initiated
\* only after the load promise of entry i has resolved, and at most one load
\* is in flight.
C1_LoadsAreSequential ==
  \A s \in Slots : \A k \in Compiles(s) :
    LET c == comp[s][k]
    IN /\ \A i \in 1..(Len(c.list) - 1) :
            c.load[i + 1] # "none" => c.load[i] \in {"resolved", "done"}
       /\ Cardinality(InFlight(c)) <= 1

C1_Witness ==
  \E s \in Slots : \E k \in Compiles(s) :
    Len(comp[s][k].list) >= 2 /\ comp[s][k].load[2] = "inflight"

EvalEntries(c) ==
  {c.elements[j].entry : j \in {x \in 1..Len(c.elements) : c.elements[x].kind = "eval"}}

\* C2: if the load of entry i rejects with E, the promise of
\* recursiveModuleCompile rejects with exactly E, no load of a later entry is
\* ever initiated, and no evaluation marker is appended for entry i or later.
C2_RejectionStopsTheChain ==
  \A s \in Slots : \A k \in Compiles(s) :
    LET c == comp[s][k]
    IN \A i \in 1..Len(c.list) :
         c.load[i] = "rejected" =>
           /\ c.out = "rejected"
           /\ c.err = c.lerr[i]
           /\ c.err = LoadError(c.list[i].name)
           /\ \A j \in (i + 1)..Len(c.list) : c.load[j] = "none"
           /\ \A j \in i..Len(c.list) : j \notin EvalEntries(c)

C2_Witness ==
  \E s \in Slots : \E k \in Compiles(s) :
    LET c == comp[s][k]
    IN /\ Len(c.list) >= 2
       /\ c.load[1] = "rejected"
       /\ c.doEval[1]
       /\ Settled(s)

\* C3 (as claimed): after a single-file call has settled, the process working
\* directory equals the one the process had immediately before the call.
C3_CwdAsBeforeTheCall ==
  \A s \in Slots :
    Single(s) /\ Settled(s) => pcwd.dir = call[s].cwdBefore

\* C4: the working directory is restored before the returned promise settles,
\* on both paths: once the promise has settled, and whenever a continuation of
\* the caller runs, the working directory is no longer the one this call set.
C4_RestoredBeforeSettling ==
  \A s \in Slots :
    Single(s) =>
      /\ Settled(s) => pcwd.by # s /\ pcwd.dir = cwd
      /\ call[s].observed => call[s].seenBy # s /\ call[s].seenDir = cwd

C4_Witness ==
  \E s \in Slots :
    /\ Single(s)
    /\ call[s].observed
    /\ call[s].ret = "rejected"
    /\ call[s].outputDir # cwd

\* C5 (as claimed): when a step after the switch to the output directory throws
\* synchronously, the working directory is back at its pre-call value when the
\* exception reaches the caller.
C5_RestoredOnSyncThrow ==
  \A s \in Slots :
    Single(s) /\ call[s].threw # NoError => pcwd.dir = call[s].cwdBefore

Ordered(elements) ==
  \A a, b \in 1..Len(elements) : a < b => elements[a].entry <= elements[b].entry

\* C6: the elements of the session, of the tree recursiveModuleCompile returns
\* and of the tree the single-file strategy writes list the entries' elements
\* in the order of the entry list, whenever each load settles.
C6_ElementsInEntryOrder ==
  \A s \in Slots : \A k \in Compiles(s) :
    LET c == comp[s][k]
    IN /\ Ordered(c.elements)
       /\ \A j \in 1..Len(c.elements) :
            c.elements[j].name = c.list[c.elements[j].entry].name
       /\ c.out = "resolved" /\ ~c.depTarget =>
            c.tree = [isNull |-> FALSE, elements |-> c.elements]
       /\ \A w \in 1..Len(writes[s][k]) :
            /\ Ordered(writes[s][k][w].tree.elements)
            /\ writes[s][k][w].tree = c.tree

C6_Witness ==
  \E s \in Slots :
    /\ Single(s)
    /\ Len(writes[s]) = 1 /\ Len(writes[s][1]) = 1
    /\ Len(comp[s][1].list) >= 2
    /\ LET t == writes[s][1][1].tree.elements
       IN \E a, b \in 1..Len(t) :
            /\ a < b
            /\ t[a] = CodeElement(comp[s][1], 1)
            /\ t[b] = CodeElement(comp[s][1], 2)

\* C7 (as claimed): when depTarget is set the result of recursiveModuleCompile
\* is null and writeTreeToFile is not invoked for the request.
C7_NoWriteForDepTarget ==
  \A s \in Slots :
    call[s].options.depTarget =>
      \A k \in Compiles(s) :
        /\ comp[s][k].out = "resolved" => comp[s][k].tree.isNull
        /\ writes[s][k] = <<>>

\* C8: a single-file compile invokes writeTreeToFile at most once, only after
\* every entry's load has resolved, never when a load rejected, and its
\* promise resolves only if the write was performed.
C8_AllOrNothing ==
  \A s \in Slots :
    Single(s) =>
      /\ \A k \in Compiles(s) :
           /\ Len(writes[s][k]) <= 1
           /\ writes[s][k] # <<>> =>
                \A i \in 1..Len(comp[s][k].list) : comp[s][k].load[i] = "done"
           /\ (\E i \in 1..Len(comp[s][k].list) : comp[s][k].load[i] = "rejected")
                => writes[s][k] = <<>>
      /\ call[s].ret = "resolved" =>
           /\ Len(writes[s]) = 1
           /\ Len(writes[s][1]) = 1
           /\ writes[s][1][1].ok

C8_Witness ==
  \E s \in Slots :
    /\ Single(s)
    /\ call[s].ret = "resolved"
    /\ Len(call[s].includes) >= 2

\* C9 (as claimed): from the result of a fan-out call the caller learns, for
\* every entry, whether that entry's compile succeeded or failed: once the
\* returned promise has settled every entry has settled, and the entries that
\* failed are those the result reports.
C9_ResultTellsEveryEntry ==
  \A s \in Slots :
    Each(s) /\ Settled(s) =>
      \A k \in 1..Len(call[s].item) :
        /\ call[s].item[k] # "pending"
        /\ call[s].item[k] = "rejected" <=>
             (call[s].ret = "rejected" /\ call[s].retErr = call[s].ierr[k])

\* the next reaction of entry k's own chain in a fan-out call
StepOfEntry(s, k) ==
  \/ AfterLoad(s, k, 1)
  \/ Finish(s, k)
  \/ \E ok \in BOOLEAN : WriteEach(s, k, ok)

\* C10: in a fan-out call, an entry whose own load has resolved is never
\* cancelled by what became of its siblings: until its file is written, the
\* next reaction of its own chain is queued and can run.
C10_SiblingsAreNotCancelled ==
  \A s \in Slots : \A k \in Compiles(s) :
    (Each(s) /\ comp[s][k].load[1] \in {"resolved", "done"} /\ writes[s][k] = <<>>)
      => ENABLED StepOfEntry(s, k)

C10_Witness ==
  \E s \in Slots : \E k \in Compiles(s) :
    /\ Each(s)
    /\ writes[s][k] # <<>>
    /\ writes[s][k][1].ret = "rejected"
    /\ call[s].item[k] = "resolved"

Initiated(c) == {i \in 1..Len(c.list) : c.load[i] # "none"}

C12_BundleIffSeveralEntries ==
  \A s \in Slots :
    Single(s) =>
      LET several == Len(call[s].includes) > 1
      IN /\ call[s].options.bundle = several
         /\ call[s].compilerOptions.bundle = several
         /\ \A k \in Compiles(s) : \A i \in Initiated(comp[s][k]) :
              comp[s][k].opts[i].bundle = several

C12_Witness ==
  \E s \in Slots :
    /\ Single(s)
    /\ Len(call[s].includes) = 1
    /\ Compiles(s) # {}
    /\ comp[s][1].load[1] = "inflight"
    /\ ~comp[s][1].opts[1].bundle

\* the names of the elements of a tree
TreeNames(tree) == {tree.elements[j].name : j \in 1..Len(tree.elements)}

\* C13: in a fan-out call every entry whose compile succeeded is written
\* exactly once (the write has happened or is the next reaction of its chain),
\* no other entry is written, the file is outputDir joined with the entry's
\* name, and the tree written is the tree of the entry's own session, holding
\* no element of another entry.
C13_EachWrittenOnceWithOwnTree ==
  \A s \in Slots : \A k \in Compiles(s) :
    Each(s) =>
      LET c == comp[s][k]
          w == writes[s][k]
      IN /\ Len(w) <= 1
         /\ c.out # "resolved" => w = <<>>
         /\ c.out = "resolved" =>
              IF call[s].item[k] = "pending"
              THEN w = <<>> /\ ENABLED WriteEach(s, k, TRUE)
              ELSE Len(w) = 1
         /\ \A n \in 1..Len(w) :
              /\ w[n].file = PathJoin(call[s].outputDir, call[s].includes[k].name)
              /\ w[n].tree = ToTree(c)
              /\ TreeNames(w[n].tree) \subseteq {call[s].includes[k].name}
              /\ \A k2 \in Compiles(s) \ {k} :
                   TreeNames(w[n].tree) \cap TreeNames(ToTree(comp[s][k2])) = {}

C13_Witness ==
  \E s \in Slots :
    /\ Each(s)
    /\ Len(call[s].includes) = 2
    /\ \A k \in 1..2 :
         /\ Len(writes[s][k]) = 1
         /\ Len(writes[s][k][1].tree.elements) >= 1
    /\ comp[s][1].load[1] = "done"

\* C14: in a single-file compile that overlaps no other, the process working
\* directory is the compile's output directory when each entry load is
\* initiated and when the merged tree is written.
C14_InOutputDirWhileCompiling ==
  \A s \in Slots : \A k \in Compiles(s) :
    Single(s) =>
      /\ \A i \in Initiated(comp[s][k]) :
           comp[s][k].startDir[i] = call[s].outputDir
      /\ \A n \in 1..Len(writes[s][k]) :
           writes[s][k][n].dir = call[s].outputDir
      /\ comp[s][k].basePath = call[s].outputDir

C14_Witness ==
  \E s \in Slots :
    /\ Single(s)
    /\ call[s].outputDir # call[s].cwdBefore
    /\ Len(call[s].includes) = 2
    /\ Compiles(s) # {}
    /\ comp[s][1].load[2] = "done"
    /\ Len(writes[s][1]) = 1

\* the positions of entry i's evaluation marker in the elements
EvalAt(c, i) == {j \in 1..Len(c.elements) : c.elements[j] = EvalElement(c, i)}

\* the entry is to get an evaluation marker
WantsEval(s, c, i) ==
  c.list[i].type # "script" /\ call[s].options.modules = "register"

\* C15: an evaluation marker is appended for an entry exactly when the entry
\* is not a script and modules is 'register'; it is appended once, when the
\* entry's load has resolved and before the next load is initiated, after
\* every element of that entry's load and before every element of a later
\* entry.
C15_EvalMarkerPerModuleEntry ==
  \A s \in Slots : \A k \in Compiles(s) :
    LET c == comp[s][k]
    IN \A i \in 1..Len(c.list) :
         /\ Cardinality(EvalAt(c, i)) <= 1
         /\ EvalAt(c, i) # {} => c.load[i] = "done" /\ WantsEval(s, c, i)
         /\ c.load[i] = "done" /\ WantsEval(s, c, i) => EvalAt(c, i) # {}
         /\ (i < Len(c.list) /\ WantsEval(s, c, i)) =>
              (IF c.load[i + 1] # "none" THEN EvalAt(c, i) # {} ELSE TRUE)
         /\ \A m \in EvalAt(c, i) : \A j \in 1..Len(c.elements) :
              /\ (c.elements[j].entry = i /\ j # m) => j < m
              /\ c.elements[j].entry > i => m < j
              /\ c.elements[j].entry < i => j < m

C15_Witness ==
  \E s \in Slots : \E k \in Compiles(s) :
    LET c == comp[s][k]
    IN /\ Len(c.list) = 2
       /\ c.list[1].type # "script"
       /\ c.elements # <<>>
       /\ c.elements[Len(c.elements)] = CodeElement(c, 2)
       /\ \E m \in EvalAt(c, 1) \ {1} : c.elements[m - 1] = CodeElement(c, 1)

\* C16: the compiles of a fan-out call are not sequenced against each other:
\* whatever the state of the other entries, an entry's load can be initiated
\* when it has not been, can complete when it is in flight, and the entry can
\* be written when its compile has resolved; so both loads can be in flight at
\* once and completions and writes can happen in either order.
C16_EntriesRunIndependently ==
  \A s \in Slots : \A k \in Compiles(s) :
    Each(s) =>
      LET c == comp[s][k]
      IN /\ c.load[1] = "none" => ENABLED LoadInput(s, k, 1)
         /\ c.load[1] = "inflight" =>
              ENABLED LoaderResolve(s, k, 1) /\ ENABLED LoaderReject(s, k, 1)
         /\ c.load[1] = "resolved" => ENABLED AfterLoad(s, k, 1)
         /\ (c.out = "pending" /\ Sequenced(c)) => ENABLED Finish(s, k)
         /\ (c.out = "resolved" /\ call[s].item[k] = "pending") =>
              ENABLED WriteEach(s, k, TRUE)

C16_Witness ==
  \E s \in Slots :
    /\ Each(s)
    /\ Len(call[s].includes) = 2
    /\ comp[s][1].load[1] = "inflight"
    /\ comp[s][2].load[1] = "inflight"

\* the second entry is written while the load of the first is in flight
C16_SecondWrittenFirst ==
  \E s \in Slots :
    /\ Each(s)
    /\ Len(call[s].includes) = 2
    /\ comp[s][1].load[1] = "inflight"
    /\ Len(writes[s][2]) = 1

\* the first entry is written while the load of the second is in flight
C16_FirstWrittenFirst ==
  \E s \in Slots :
    /\ Each(s)
    /\ Len(call[s].includes) = 2
    /\ comp[s][2].load[1] = "inflight"
    /\ Len(writes[s][1]) = 1

\* C17: when two single-file calls with different output directories overlap,
\* nothing makes a compile wait for its directory: an entry load that is due
\* and a write that is due can run whichever call moved the process last, and
\* the process is in a compile's output directory only as long as that call
\* was the last to move it.
C17_OverlappingCallsShareTheDirectory ==
  \A s \in Slots :
    (Single(s) /\ Compiles(s) # {}) =>
      LET c == comp[s][1]
      IN /\ \A i \in 1..Len(c.list) :
              (/\ c.load[i] = "none"
               /\ IF i = 1 THEN TRUE ELSE c.load[i - 1] = "done")
                => ENABLED LoadInput(s, 1, i)
         /\ (c.out = "resolved" /\ call[s].wst = "pending")
              => ENABLED WriteTree(s, TRUE)
         /\ pcwd.by = s => pcwd.dir = call[s].outputDir
         /\ \A i \in Initiated(c) :
              c.startDir[i] \in {call[t].outputDir : t \in Pair} \cup {cwd}
         /\ \A n \in 1..Len(writes[s][1]) :
              writes[s][1][n].dir \in {call[t].outputDir : t \in Pair} \cup {cwd}

\* one compile has initiated a load in the other call's output directory and
\* has written its file in the directory the first call to settle restored
C17_Witness ==
  \E s, t \in Pair :
    /\ s # t
    /\ Single(s) /\ Single(t)
    /\ call[s].outputDir # call[t].outputDir
    /\ call[s].outputDir # cwd
    /\ \E i \in Initiated(comp[s][1]) : comp[s][1].startDir[i] = call[t].outputDir
    /\ Len(writes[s][1]) = 1
    /\ writes[s][1][1].dir = cwd

\* C18 (as claimed): the rewriting of the entry names by the single-file call
\* (resolved against the working directory, then made relative to the output
\* directory) leaves the names unchanged when it is applied again, with the
\* same output file, to the entries a first call has rewritten.
C18_RewritingIsIdempotent ==
  (Single(1) /\ Single(2)) =>
    /\ call[2].outputFile = call[1].outputFile
    /\ call[2].cwdBefore = call[1].cwdBefore
    /\ \A i \in 1..Len(call[1].includes) :
         call[2].includes[i].name = call[1].includes[i].name

\* the second call has run with the output directory next to, or away from,
\* the working directory and left the names as they were
C18_SameNamesReached ==
  /\ Single(1) /\ Single(2)
  /\ call[1].includes # <<>>
  /\ call[1].outputDir # call[1].cwdBefore
  /\ call[2].includes = call[1].includes

\* C19: when the promise of forEachRecursiveModuleCompile is resolved,
\* writeTreeToFile has been invoked exactly once for every entry, and no load
\* and no write of any entry is still pending.
C19_ResolvedMeansAllWritten ==
  \A s \in Slots :
    (Each(s) /\ call[s].ret = "resolved") =>
      /\ Len(writes[s]) = Len(call[s].includes)
      /\ \A k \in 1..Len(call[s].includes) :
           /\ Len(writes[s][k]) = 1
           /\ writes[s][k][1].ok
           /\ call[s].item[k] = "resolved"
           /\ comp[s][k].load[1] = "done"
           /\ comp[s][k].out = "resolved"

C19_Witness ==
  \E s \in Slots :
    /\ Each(s)
    /\ call[s].ret = "resolved"
    /\ Len(call[s].includes) = 2
    /\ \A k \in 1..2 : Len(writes[s][k]) = 1

\* the single-file call s has returned a promise
Returned(s) == Single(s) /\ call[s].threw = NoError

\* no entry is handed to the loader twice, and a resolved request has loaded
\* every entry
LoadedAtMostOnce ==
  \A s \in Slots : \A k \in Compiles(s) :
    LET c == comp[s][k]
    IN \A i \in 1..Len(c.list) :
         /\ c.nload[i] <= 1
         /\ (Returned(s) /\ call[s].ret = "resolved") => c.nload[i] = 1

\* a settled request for the empty list has written one tree without elements
\* and is resolved unless that write threw
EmptyListWritten ==
  \A s \in Slots :
    (Returned(s) /\ Settled(s) /\ call[s].includes = <<>>) =>
      /\ Len(writes[s][1]) = 1
      /\ writes[s][1][1].tree.elements = <<>>
      /\ call[s].ret = "resolved" <=> writes[s][1][1].ok

C20_EmptyListResolved ==
  \E s \in Slots :
    /\ Returned(s)
    /\ call[s].includes = <<>>
    /\ call[s].ret = "resolved"
    /\ writes[s][1] = <<WriteRecord([isNull |-> FALSE, elements |-> <<>>],
                                    call[s].outputFile, TRUE, "pending")>>

====
